---- MODULE Spec2Model ----
(* Expansion-time model of the axvisor_api attribute macros api_def and      *)
(* api_impl (axvisor_api_proc/src/lib.rs): token streams are sequences of    *)
(* tokens, each token a text with a source span; a build is the sequence of  *)
(* attribute expansions performed so far, under one toolchain and target;    *)
(* run holds what the program built from them has been asked to do.          *)
EXTENDS Integers, Sequences, FiniteSets, TLC

VARIABLES expansions, link, toolchain, run

vars == <<expansions, link, toolchain, run>>

(* ---------------------------------------------------------------------- *)
(* Bounds                                                                 *)
(* ---------------------------------------------------------------------- *)
\* Expansions per build when single expansions are studied.
MaxItems == 2
\* Expansions per build when the build is carried through to the link step.
MaxBuild == 3
\* Calls made by the program once it is built.
MaxCalls == 2
\* Largest VM id (and vCPU count) the implementation below the API knows.
MaxVm == 1

(* ---------------------------------------------------------------------- *)
(* Tokens and spans                                                       *)
(* ---------------------------------------------------------------------- *)
\* Span::call_site(): the span every token written by quote! carries.
CallSite == [lo |-> 0, hi |-> 0]

\* A token written in the user's source at position p.
SrcSpan(p) == [lo |-> p, hi |-> p]

\* The tokens of a source text starting right after position base.
Lex(texts, base) ==
    [i \in 1..Len(texts) |-> [t |-> texts[i], sp |-> SrcSpan(base + i)]]

\* quote! { ... }: literal tokens, all spanned at the call site.
quote(texts) ==
    [i \in 1..Len(texts) |-> [t |-> texts[i], sp |-> CallSite]]

\* quote_spanned! { s => ... }: literal tokens, all spanned at s.
quote_spanned(s, texts) ==
    [i \in 1..Len(texts) |-> [t |-> texts[i], sp |-> s]]

\* The texts of a token stream, spans dropped.
Texts(ts) == [i \in 1..Len(ts) |-> ts[i].t]

\* TokenStream::span(): call site for an empty stream, otherwise the first
\* token's span joined with the last one's; Span::join yields the joined
\* span only where the toolchain supports it (can_join) and otherwise the
\* first token's span is kept.
span(ts, can_join) ==
    IF Len(ts) = 0 THEN CallSite
    ELSE IF Len(ts) = 1 \/ ~can_join THEN ts[1].sp
    ELSE [lo |-> ts[1].sp.lo, hi |-> ts[Len(ts)].sp.hi]

\* Positions: attribute arguments are written at 1.., the annotated item at
\* ItemBase+1.. .
ItemBase == 10

(* ---------------------------------------------------------------------- *)
(* Results of the dependency lookup crate_name("axvisor_api")             *)
(* ---------------------------------------------------------------------- *)
Itself == [kind |-> "Itself", name |-> ""]
Name(n) == [kind |-> "Name", name |-> n]
NotFound == [kind |-> "Err", name |-> ""]

\* Where an expansion takes place, with the lookup result there. The
\* example target belongs to the axvisor_api package and links the library
\* as an external crate named axvisor_api; the lookup answers Itself for it,
\* which is why it has to bring `__priv` into its own crate root.
EnvLib == [loc |-> "library", imported_as |-> "", found |-> Itself]
EnvExample == [loc |-> "example", imported_as |-> "axvisor_api", found |-> Itself]
EnvConsumer == [loc |-> "consumer", imported_as |-> "axvisor_api", found |-> Name("axvisor_api")]
EnvRenamed == [loc |-> "consumer", imported_as |-> "renamed_api", found |-> Name("renamed_api")]
EnvMissing == [loc |-> "consumer", imported_as |-> "", found |-> NotFound]

Envs == {EnvLib, EnvExample, EnvConsumer, EnvRenamed, EnvMissing}

(* ---------------------------------------------------------------------- *)
(* The macro crate                                                        *)
(* ---------------------------------------------------------------------- *)
\* The two string literals handed to compile_error! (the first one names the
\* crate between backquotes in the source).
CrateNotFoundMsg == "axvisor_api crate not found"
NoArgsMsg == "This attribute does not accept any arguments"

compile_error(msg) == <<"compile_error", "!", "(", msg, ")">>

\* fn axvisor_api_crate() -> TokenStream
axvisor_api_crate(found) ==
    CASE found.kind = "Itself" -> quote(<<"crate">>)
      [] found.kind = "Name" -> quote(<<found.name>>)
      [] OTHER -> quote(compile_error(CrateNotFoundMsg))

AXVISOR_API_NS == "AxVisorApi"

\* fn axvisor_api_namespace() -> Ident
axvisor_api_namespace == [t |-> AXVISOR_API_NS, sp |-> CallSite]

\* assert_empty_attr written with quote! instead of quote_spanned!: the
\* diagnostic lands on the call site.
assert_empty_attr_call_site(attr, can_join) ==
    quote(compile_error(NoArgsMsg))

\* macro_rules! assert_empty_attr: the stream returned when the attribute
\* arguments are not empty.
assert_empty_attr(attr, can_join) ==
    quote_spanned(span(attr, can_join), compile_error(NoArgsMsg))

\* syn::parse_macro_input!(input as TokenStream): a token stream parses as
\* itself, whatever it contains.
parse_macro_input(input) == input

\* api_def without the argument check.
api_def_unchecked(attr, input, found, can_join) ==
    quote(<<"#", "[">>)
    \o axvisor_api_crate(found)
    \o quote(<<"::", "__priv", "::", "crate_interface", "::",
               "def_interface", "(", "gen_caller", ",", "namespace", "=">>)
    \o <<axvisor_api_namespace>>
    \o quote(<<")", "]">>)
    \o parse_macro_input(input)

\* api_def that forgets the gen_caller option.
api_def_no_caller(attr, input, found, can_join) ==
    IF Len(attr) # 0 THEN assert_empty_attr(attr, can_join)
    ELSE quote(<<"#", "[">>)
         \o axvisor_api_crate(found)
         \o quote(<<"::", "__priv", "::", "crate_interface", "::",
                    "def_interface", "(", "namespace", "=">>)
         \o <<axvisor_api_namespace>>
         \o quote(<<")", "]">>)
         \o parse_macro_input(input)

\* api_def that rebuilds the declaration and loses the return types on the way.
api_def_lossy(attr, input, found, can_join) ==
    IF Len(attr) # 0 THEN assert_empty_attr(attr, can_join)
    ELSE quote(<<"#", "[">>)
         \o axvisor_api_crate(found)
         \o quote(<<"::", "__priv", "::", "crate_interface", "::",
                    "def_interface", "(", "gen_caller", ",", "namespace", "=">>)
         \o <<axvisor_api_namespace>>
         \o quote(<<")", "]">>)
         \o LET numbered == [i \in 1..Len(input) |-> [at |-> i, tok |-> input[i]]]
                kept == SelectSeq(numbered, LAMBDA r :
                            /\ r.tok.t # "->"
                            /\ (r.at > 1 => input[r.at - 1].t # "->"))
            IN [k \in 1..Len(kept) |-> kept[k].tok]

\* api_def that numbers its expansions through a static counter and makes the
\* namespace of every expansion after the first one unique.
api_def_counted(attr, input, found, can_join) ==
    IF Len(attr) # 0 THEN assert_empty_attr(attr, can_join)
    ELSE quote(<<"#", "[">>)
         \o axvisor_api_crate(found)
         \o quote(<<"::", "__priv", "::", "crate_interface", "::",
                    "def_interface", "(", "gen_caller", ",", "namespace", "=">>)
         \o quote(<<IF Len(expansions) = 0 THEN AXVISOR_API_NS ELSE "AxVisorApi_1">>)
         \o quote(<<")", "]">>)
         \o parse_macro_input(input)

\* api_def that emits the item without handing it to def_interface.
api_def_unannotated(attr, input, found, can_join) ==
    IF Len(attr) # 0 THEN assert_empty_attr(attr, can_join)
    ELSE parse_macro_input(input)

\* pub fn api_def(attr, input) -> TokenStream
api_def(attr, input, found, can_join) ==
    IF Len(attr) # 0 THEN assert_empty_attr(attr, can_join)
    ELSE quote(<<"#", "[">>)
         \o axvisor_api_crate(found)
         \o quote(<<"::", "__priv", "::", "crate_interface", "::",
                    "def_interface", "(", "gen_caller", ",", "namespace", "=">>)
         \o <<axvisor_api_namespace>>
         \o quote(<<")", "]">>)
         \o parse_macro_input(input)

\* api_impl that emits the annotation after the binding instead of before.
api_impl_trailing(attr, input, found, can_join) ==
    IF Len(attr) # 0 THEN assert_empty_attr(attr, can_join)
    ELSE parse_macro_input(input)
         \o quote(<<"#", "[">>)
         \o axvisor_api_crate(found)
         \o quote(<<"::", "__priv", "::", "crate_interface", "::",
                    "impl_interface", "(", "namespace", "=">>)
         \o <<axvisor_api_namespace>>
         \o quote(<<")", "]">>)

\* api_impl that remembers a usage error in a static flag and keeps reporting
\* it for the expansions that follow.
api_impl_poisoned(attr, input, found, can_join) ==
    IF Len(attr) # 0 THEN assert_empty_attr(attr, can_join)
    ELSE IF \E i \in 1..Len(expansions) : Len(expansions[i].attr) # 0
    THEN quote(compile_error(NoArgsMsg))
    ELSE quote(<<"#", "[">>)
         \o axvisor_api_crate(found)
         \o quote(<<"::", "__priv", "::", "crate_interface", "::",
                    "impl_interface", "(", "namespace", "=">>)
         \o <<axvisor_api_namespace>>
         \o quote(<<")", "]">>)
         \o parse_macro_input(input)

\* api_impl without the argument check.
api_impl_unchecked(attr, input, found, can_join) ==
    quote(<<"#", "[">>)
    \o axvisor_api_crate(found)
    \o quote(<<"::", "__priv", "::", "crate_interface", "::",
               "impl_interface", "(", "namespace", "=">>)
    \o <<axvisor_api_namespace>>
    \o quote(<<")", "]">>)
    \o parse_macro_input(input)

\* api_impl that emits the binding without handing it to impl_interface.
api_impl_unannotated(attr, input, found, can_join) ==
    IF Len(attr) # 0 THEN assert_empty_attr(attr, can_join)
    ELSE parse_macro_input(input)

\* api_impl that leaves the namespace to impl_interface's default.
api_impl_default_ns(attr, input, found, can_join) ==
    IF Len(attr) # 0 THEN assert_empty_attr(attr, can_join)
    ELSE quote(<<"#", "[">>)
         \o axvisor_api_crate(found)
         \o quote(<<"::", "__priv", "::", "crate_interface", "::",
                    "impl_interface", "(", ")", "]">>)
         \o parse_macro_input(input)

\* pub fn api_impl(attr, input) -> TokenStream
api_impl(attr, input, found, can_join) ==
    IF Len(attr) # 0 THEN assert_empty_attr(attr, can_join)
    ELSE quote(<<"#", "[">>)
         \o axvisor_api_crate(found)
         \o quote(<<"::", "__priv", "::", "crate_interface", "::",
                    "impl_interface", "(", "namespace", "=">>)
         \o <<axvisor_api_namespace>>
         \o quote(<<")", "]">>)
         \o parse_macro_input(input)

(* ---------------------------------------------------------------------- *)
(* Inputs                                                                 *)
(* ---------------------------------------------------------------------- *)
\* Attribute argument lists: none, one token, several tokens.
Attrs == { Lex(<<>>, 0), Lex(<<"foo">>, 0), Lex(<<"ns", "=", "Other">>, 0) }

\* Annotated items, as written in examples/example.rs.
TraitSomeDemoIf ==
    Lex(<<"trait", "SomeDemoIf", "{",
          "fn", "some_func", "(", ")", "->", "PhysAddr", ";",
          "fn", "another_func", "(", "addr", ":", "PhysAddr", ")", ";", "}">>, ItemBase)
ImplSomeDemoImpl ==
    Lex(<<"impl", "SomeDemoIf", "for", "SomeDemoImpl", "{",
          "fn", "some_func", "(", ")", "->", "PhysAddr", "{", "0x42", "}",
          "fn", "another_func", "(", "addr", ":", "PhysAddr", ")", "{", "}", "}">>, ItemBase)
StructSomeDemoImpl ==
    Lex(<<"struct", "SomeDemoImpl", ";">>, ItemBase)

Items == {TraitSomeDemoIf, ImplSomeDemoImpl, StructSomeDemoImpl}

\* Further declarations and bindings for whole builds: a second binding of
\* SomeDemoIf, an interface sharing an operation name with SomeDemoIf, and an
\* interface without operations, bound twice. A body is the value it returns.
ImplSecondDemoImpl ==
    Lex(<<"impl", "SomeDemoIf", "for", "SecondDemoImpl", "{",
          "fn", "some_func", "(", ")", "->", "PhysAddr", "{", "0x43", "}",
          "fn", "another_func", "(", "addr", ":", "PhysAddr", ")", "{", "}", "}">>, ItemBase)
TraitOtherIf ==
    Lex(<<"trait", "OtherIf", "{", "fn", "some_func", "(", ")", "->", "PhysAddr", ";", "}">>, ItemBase)
ImplOtherImpl ==
    Lex(<<"impl", "OtherIf", "for", "OtherImpl", "{",
          "fn", "some_func", "(", ")", "->", "PhysAddr", "{", "0x44", "}", "}">>, ItemBase)
TraitMarkerIf ==
    Lex(<<"trait", "MarkerIf", "{", "}">>, ItemBase)
ImplMarkerA ==
    Lex(<<"impl", "MarkerIf", "for", "MarkerA", "{", "}">>, ItemBase)
ImplMarkerB ==
    Lex(<<"impl", "MarkerIf", "for", "MarkerB", "{", "}">>, ItemBase)

\* The declaration of src/arch.rs, every operation of it gated on the target,
\* and a binding of it gated the same way.
CfgAarch64 == <<"#", "[", "cfg", "(", "target_arch", "=", "aarch64", ")", "]">>
TraitArchIf ==
    Lex(<<"trait", "ArchIf", "{">>
        \o CfgAarch64 \o <<"fn", "hardware_inject_virtual_interrupt",
                            "(", "vector", ":", "InterruptVector", ")", ";">>
        \o CfgAarch64 \o <<"fn", "read_vgicd_typer", "(", ")", "->", "u32", ";">>
        \o CfgAarch64 \o <<"fn", "read_vgicd_iidr", "(", ")", "->", "u32", ";">>
        \o CfgAarch64 \o <<"fn", "get_host_gicd_base", "(", ")", "->", "PhysAddr", ";">>
        \o CfgAarch64 \o <<"fn", "get_host_gicr_base", "(", ")", "->", "PhysAddr", ";">>
        \o <<"}">>, ItemBase)
ImplArchIfImpl ==
    Lex(<<"impl", "ArchIf", "for", "ArchIfImpl", "{">>
        \o CfgAarch64 \o <<"fn", "hardware_inject_virtual_interrupt",
                            "(", "vector", ":", "InterruptVector", ")", "{", "}">>
        \o CfgAarch64 \o <<"fn", "read_vgicd_typer", "(", ")", "->", "u32", "{", "0x1", "}">>
        \o CfgAarch64 \o <<"fn", "read_vgicd_iidr", "(", ")", "->", "u32", "{", "0x2", "}">>
        \o CfgAarch64 \o <<"fn", "get_host_gicd_base", "(", ")", "->", "PhysAddr", "{", "0x3", "}">>
        \o CfgAarch64 \o <<"fn", "get_host_gicr_base", "(", ")", "->", "PhysAddr", "{", "0x4", "}">>
        \o <<"}">>, ItemBase)
ArchOps == {"hardware_inject_virtual_interrupt", "read_vgicd_typer", "read_vgicd_iidr",
            "get_host_gicd_base", "get_host_gicr_base"}
ArchEnvs == {EnvLib, EnvConsumer}

Traits == {TraitSomeDemoIf, TraitOtherIf, TraitMarkerIf}
Impls == {ImplSomeDemoImpl, ImplSecondDemoImpl, ImplOtherImpl, ImplMarkerA, ImplMarkerB}
BuildAttrs == { Lex(<<>>, 0), Lex(<<"foo">>, 0) }
BuildEnvs == {EnvConsumer}

(* ---------------------------------------------------------------------- *)
(* The link-time primitive behind the annotations, and the build          *)
(* ---------------------------------------------------------------------- *)
\* out starts with an attribute naming <path>::__priv::crate_interface::<prim>.
Annotated(out) ==
    /\ Len(out) >= 9
    /\ Texts(SubSeq(out, 1, 2)) = <<"#", "[">>
    /\ out[3].t # "compile_error"
    /\ Texts(SubSeq(out, 4, 8)) = <<"::", "__priv", "::", "crate_interface", "::">>
    /\ out[9].t \in {"def_interface", "impl_interface"}
    /\ \E i \in 10..Len(out) : out[i].t = "]" /\ out[i].sp = CallSite

\* The index closing the attribute, and the parts around it.
AnnotationEnd(out) ==
    CHOOSE i \in 10..Len(out) :
        /\ out[i].t = "]" /\ out[i].sp = CallSite
        /\ \A j \in 10..(i - 1) : ~(out[j].t = "]" /\ out[j].sp = CallSite)
PrimitiveOf(out) == out[9].t
OptionsOf(out) == Texts(SubSeq(out, 10, AnnotationEnd(out)))
ItemOf(out) == SubSeq(out, AnnotationEnd(out) + 1, Len(out))

\* The namespace option of an annotation, "" when it is left out.
OptionNamespace(out) ==
    LET o == OptionsOf(out)
        at == { i \in 1..Len(o) - 2 : o[i] = "namespace" /\ o[i + 1] = "=" }
    IN IF at = {} THEN "" ELSE o[(CHOOSE i \in at : TRUE) + 2]

\* The operation names of a declaration or binding: the names after `fn`.
OpsOf(item) == { item[i + 1].t : i \in { k \in 1..Len(item) - 1 : item[k].t = "fn" } }

\* What the compiler makes of one expansion's output:
\*   rejected  - a diagnostic, and no code for the item (compile_error!, an
\*               attribute that is not a path, or the primitive refusing the
\*               shape of the item);
\*   interface - def_interface registered an operation-set declaration;
\*   binding   - impl_interface registered a binding;
\*   plain     - the tokens are compiled as they are.
Outcome(out) ==
    IF Len(out) = 0 THEN "plain"
    ELSE IF out[1].t = "compile_error" THEN "rejected"
    ELSE IF Len(out) >= 2 /\ Texts(SubSeq(out, 1, 2)) = <<"#", "[">> /\ out[1].sp = CallSite
         THEN IF ~Annotated(out) THEN "rejected"
              ELSE IF PrimitiveOf(out) = "def_interface"
                   THEN IF Len(ItemOf(out)) > 0 /\ ItemOf(out)[1].t = "trait"
                        THEN "interface" ELSE "rejected"
                   ELSE IF Len(ItemOf(out)) > 0 /\ ItemOf(out)[1].t = "impl"
                        THEN "binding" ELSE "rejected"
    ELSE "plain"

\* The tokens left of a gated operation's tail once the operation is dropped:
\* everything after its `;`, or after its body.
AfterOperation(ts) ==
    LET stop == CHOOSE j \in 1..Len(ts) :
                    /\ ts[j].t \in {";", "{"}
                    /\ \A m \in 1..(j - 1) : ts[m].t \notin {";", "{"}
        last == IF ts[stop].t = ";" THEN stop
                ELSE CHOOSE j \in stop..Len(ts) :
                        /\ ts[j].t = "}"
                        /\ \A m \in stop..(j - 1) : ts[m].t # "}"
    IN SubSeq(ts, last + 1, Len(ts))

\* Conditional compilation: a #[cfg(target_arch = "a")] attribute disappears
\* when the build targets a, and takes the operation it is on with it when
\* the build targets anything else.
RECURSIVE cfg_strip(_, _)
cfg_strip(ts, target) ==
    IF Len(ts) = 0 THEN <<>>
    ELSE IF Len(ts) >= 9 /\ Texts(SubSeq(ts, 1, 6)) = SubSeq(CfgAarch64, 1, 6)
                        /\ Texts(SubSeq(ts, 8, 9)) = <<")", "]">>
         THEN IF ts[7].t = target
              THEN cfg_strip(SubSeq(ts, 10, Len(ts)), target)
              ELSE cfg_strip(AfterOperation(SubSeq(ts, 10, Len(ts))), target)
         ELSE <<ts[1]>> \o cfg_strip(Tail(ts), target)

\* The expansions of a build as the compiler sees them for one target.
Configured(exps, target) ==
    [i \in 1..Len(exps) |-> [exps[i] EXCEPT !.out = cfg_strip(exps[i].out, target)]]

\* The symbol of an operation: a function of namespace, interface name and
\* operation name.
Symbol(ns, iface, op) == <<ns, iface, op>>

\* The symbols a binding exports, and the symbols the callers generated for a
\* declaration refer to.
ExportsOf(out) ==
    IF Outcome(out) # "binding" THEN {}
    ELSE { Symbol(OptionNamespace(out), ItemOf(out)[2].t, op) : op \in OpsOf(ItemOf(out)) }

CallersOf(out) ==
    IF Outcome(out) # "interface" \/ ~(\E i \in 1..Len(OptionsOf(out)) : OptionsOf(out)[i] = "gen_caller")
    THEN {}
    ELSE { Symbol(OptionNamespace(out), ItemOf(out)[2].t, op) : op \in OpsOf(ItemOf(out)) }

\* The signature of the operation whose `fn` is at index k of item: name,
\* parameter tokens in order, return type (the unit type when none is given).
SignatureAt(item, k) ==
    LET close == CHOOSE j \in (k + 2)..Len(item) :
                    /\ item[j].t = ")"
                    /\ \A m \in (k + 2)..(j - 1) : item[m].t # ")"
    IN [name |-> item[k + 1].t,
        params |-> Texts(SubSeq(item, k + 3, close - 1)),
        ret |-> IF close + 2 <= Len(item) /\ item[close + 1].t = "->"
                THEN item[close + 2].t ELSE "()"]

SignaturesOf(item) ==
    { SignatureAt(item, k) : k \in { i \in 1..Len(item) - 1 : item[i].t = "fn" } }

\* The caller stubs generated for a declaration: one per operation, with the
\* operation's own signature.
CallerStubs(out) ==
    IF CallersOf(out) = {} THEN {} ELSE SignaturesOf(ItemOf(out))

\* The interface names declared, resp. bound, by a sequence of expansions.
Declared(exps) ==
    { ItemOf(exps[i].out)[2].t : i \in { k \in 1..Len(exps) : Outcome(exps[k].out) = "interface" } }
Exporters(exps, sym) == { i \in 1..Len(exps) : sym \in ExportsOf(exps[i].out) }
AllExports(exps) == UNION { ExportsOf(exps[i].out) : i \in 1..Len(exps) }
AllCallers(exps) == UNION { CallersOf(exps[i].out) : i \in 1..Len(exps) }

\* The build compiles: no expansion was rejected, and every binding is for a
\* declared interface.
Compiles(exps) ==
    /\ \A i \in 1..Len(exps) : Outcome(exps[i].out) # "rejected"
    /\ \A i \in 1..Len(exps) :
          Outcome(exps[i].out) = "binding" => ItemOf(exps[i].out)[2].t \in Declared(exps)

\* A linker that lets a referenced symbol without a definition through.
LinkDiagnostics_lenient(exps, calls) ==
    IF \E sym \in AllExports(exps) : Cardinality(Exporters(exps, sym)) > 1
      THEN {"duplicate_symbol"} ELSE {}

\* The linker's diagnostics for the symbols exported and the callers reached.
LinkDiagnostics(exps, calls) ==
    (IF \E sym \in AllExports(exps) : Cardinality(Exporters(exps, sym)) > 1
      THEN {"duplicate_symbol"} ELSE {})
    \cup
    (IF \E sym \in calls : sym \notin AllExports(exps)
      THEN {"unresolved_symbol"} ELSE {})

\* The result of building exps with the callers in calls invoked from
\* reachable code.
Build(exps, calls) ==
    IF \E i \in 1..Len(exps) : Outcome(exps[i].out) = "rejected"
      THEN [status |-> "expansion_error", diags |-> {}, calls |-> {}]
    ELSE IF ~Compiles(exps)
      THEN [status |-> "compile_error", diags |-> {}, calls |-> {}]
    ELSE IF LinkDiagnostics(exps, calls) # {}
      THEN [status |-> "link_error", diags |-> LinkDiagnostics(exps, calls), calls |-> calls]
    ELSE [status |-> "ok", diags |-> {}, calls |-> calls]

(* ---------------------------------------------------------------------- *)
(* The built program                                                      *)
(* ---------------------------------------------------------------------- *)
\* The value a binding's body returns: the address literal it consists of,
\* nothing (0) for an empty body.
LiteralValue(t) ==
    CASE t = "0x42" -> 66 [] t = "0x43" -> 67 [] t = "0x44" -> 68
      [] t = "0x1" -> 1 [] t = "0x2" -> 2 [] t = "0x3" -> 3 [] t = "0x4" -> 4
      [] OTHER -> 0

BodyValue(item, op) ==
    LET k == CHOOSE i \in 1..Len(item) - 1 : item[i].t = "fn" /\ item[i + 1].t = op
        open == CHOOSE j \in k..Len(item) :
                    item[j].t = "{" /\ \A m \in k..(j - 1) : item[m].t # "{"
    IN IF item[open + 1].t = "}" THEN 0 ELSE LiteralValue(item[open + 1].t)

\* The expansion a caller's symbol is resolved to by the link, and what a
\* call through it returns.
Resolve(exps, sym) == CHOOSE i \in 1..Len(exps) : sym \in ExportsOf(exps[i].out)
Dispatch(exps, sym) ==
    [sym |-> sym, target |-> Resolve(exps, sym),
     ret |-> BodyValue(ItemOf(exps[Resolve(exps, sym)].out), sym[3])]

\* provided_func of examples/example.rs without the offset.
provided_func_no_offset(some_func_ret) == some_func_ret

\* pub fn provided_func() -> PhysAddr, given what some_func() returned.
provided_func(some_func_ret) == some_func_ret + 4096

(* ---------------------------------------------------------------------- *)
(* 64- and 128-bit unsigned integers, as little-endian byte sequences      *)
(* ---------------------------------------------------------------------- *)
Zeros(len) == [i \in 1..len |-> 0]
\* A number below 2^31 as len bytes.
ToBytes(n, len) == [i \in 1..len |-> IF i <= 4 THEN (n \div 256 ^ (i - 1)) % 256 ELSE 0]
\* Zero extension to len bytes, and the `as` cast down to len bytes.
Extend(a, len) == [i \in 1..len |-> IF i <= Len(a) THEN a[i] ELSE 0]
Truncate(a, len) == SubSeq(a, 1, len)
ShlBytes(a, k) == [i \in 1..Len(a) |-> IF i <= k THEN 0 ELSE a[i - k]]

\* The carry into byte i of a + b: some lower byte overflows and every byte
\* between passes the carry on.
Carry(a, b, i) ==
    IF \E j \in 1..(i - 1) :
          /\ a[j] + b[j] > 255
          /\ \A k \in (j + 1)..(i - 1) : a[k] + b[k] = 255
    THEN 1 ELSE 0
\* a + b within Len(a) bytes.
Add(a, b) == [i \in 1..Len(a) |-> (a[i] + b[i] + Carry(a, b, i)) % 256]

\* The byte products of a and a 4-byte b that land on byte k.
Term(a, b, k, j) == IF k - j + 1 >= 1 /\ k - j + 1 <= Len(a) THEN a[k - j + 1] * b[j] ELSE 0
Column(a, b, k) == Term(a, b, k, 1) + Term(a, b, k, 2) + Term(a, b, k, 3) + Term(a, b, k, 4)
\* a * b within Len(a) bytes, b of 4 bytes: every column is below 2^24 and
\* contributes its three bytes at k, k + 1 and k + 2.
Mul(a, b) ==
    Add(Add([k \in 1..Len(a) |-> Column(a, b, k) % 256],
            ShlBytes([k \in 1..Len(a) |-> (Column(a, b, k) \div 256) % 256], 1)),
        ShlBytes([k \in 1..Len(a) |-> Column(a, b, k) \div 65536], 2))

\* a < b for two numbers of the same width.
Less(a, b) ==
    \E i \in 1..Len(a) : a[i] < b[i] /\ \A j \in (i + 1)..Len(a) : a[j] = b[j]

\* Bit k of a, counted from the least significant one.
Bit(a, k) == (a[k \div 8 + 1] \div 2 ^ (k % 8)) % 2
\* The bits of a from bit k up, as a number, modulo d < 2^30.
RECURSIVE RemFrom(_, _, _)
RemFrom(a, d, k) ==
    IF k >= 8 * Len(a) THEN 0 ELSE (2 * RemFrom(a, d, k + 1) + Bit(a, k)) % d
\* Bit k of the quotient of the long division of a by d.
QuotBit(a, d, k) == (2 * RemFrom(a, d, k + 1) + Bit(a, k)) \div d
\* a / d and a % d.
DivRem(a, d) ==
    [q |-> [i \in 1..Len(a) |->
              QuotBit(a, d, 8 * i - 8) + 2 * QuotBit(a, d, 8 * i - 7)
              + 4 * QuotBit(a, d, 8 * i - 6) + 8 * QuotBit(a, d, 8 * i - 5)
              + 16 * QuotBit(a, d, 8 * i - 4) + 32 * QuotBit(a, d, 8 * i - 3)
              + 64 * QuotBit(a, d, 8 * i - 2) + 128 * QuotBit(a, d, 8 * i - 1)],
     r |-> RemFrom(a, d, 0)]

(* ---------------------------------------------------------------------- *)
(* time.rs                                                                *)
(* ---------------------------------------------------------------------- *)
NANOS_PER_SEC == 1000000000

\* TimeValue = core::time::Duration: whole seconds (u64) and nanoseconds
\* below one second.
Duration(secs, nanos) == [secs |-> secs, nanos |-> nanos]
\* Duration::as_nanos(&self) -> u128
as_nanos(d) ==
    Add(Mul(Extend(d.secs, 16), ToBytes(NANOS_PER_SEC, 4)), ToBytes(d.nanos, 16))
\* Duration::from_nanos(nanos: u64) -> Duration
from_nanos(n) ==
    LET res == DivRem(n, NANOS_PER_SEC) IN Duration(res.q, res.r)

\* What the bound TimeIf implementation computes: a counter that ticks once
\* a nanosecond, or one that ticks once every 256 nanoseconds.
TimeImpls == {"1GHz", "div256"}
impl_nanos_to_ticks(impl, nanos) ==
    IF impl = "1GHz" THEN nanos ELSE Extend(Tail(nanos), 8)
impl_ticks_to_nanos(impl, ticks) ==
    IF impl = "1GHz" THEN ticks ELSE ShlBytes(ticks, 1)

Returned(v) == [kind |-> "ret", val |-> v]
Panicked == [kind |-> "panic", val |-> 0]
CallOf(fn, arg, ret) == [fn |-> fn, arg |-> arg, ret |-> ret]

\* time_to_ticks with a cast that clamps to u64::MAX.
time_to_ticks_saturating(impl, time) ==
    LET full == as_nanos(time)
        nanos == IF SubSeq(full, 9, 16) = Zeros(8) THEN Truncate(full, 8)
                 ELSE [i \in 1..8 |-> 255]
        ticks == impl_nanos_to_ticks(impl, nanos)
    IN [trace |-> <<CallOf("nanos_to_ticks", nanos, ticks)>>, result |-> Returned(ticks)]

\* pub fn time_to_ticks(time: TimeValue) -> Ticks
time_to_ticks(impl, time) ==
    LET nanos == Truncate(as_nanos(time), 8)
        ticks == impl_nanos_to_ticks(impl, nanos)
    IN [trace |-> <<CallOf("nanos_to_ticks", nanos, ticks)>>, result |-> Returned(ticks)]

\* pub fn ticks_to_time(ticks: Ticks) -> TimeValue
ticks_to_time(impl, ticks) ==
    LET nanos == impl_ticks_to_nanos(impl, ticks)
    IN [trace |-> <<CallOf("ticks_to_nanos", ticks, nanos)>>,
        result |-> Returned(from_nanos(nanos))]

\* u64 values around the places where the conversions change behaviour.
U64Max == [i \in 1..8 |-> 255]
\* 18446744073 s + 709551616 ns = 2^64 ns.
WrapSecs == <<9, 250, 130, 75, 4, 0, 0, 0>>
WrapNanos == 709551616
SecsInputs ==
    {Zeros(8), ToBytes(1, 8), WrapSecs, Add(WrapSecs, ToBytes(1, 8)), U64Max}
NanosInputs == {0, 1, WrapNanos - 1, WrapNanos, WrapNanos + 1, NANOS_PER_SEC - 1}
Durations == { Duration(s, n) : s \in SecsInputs, n \in NanosInputs }
TicksInputs ==
    {Zeros(8), ToBytes(1, 8), ToBytes(NANOS_PER_SEC - 1, 8), ToBytes(NANOS_PER_SEC, 8),
     ToBytes(NANOS_PER_SEC + 1, 8), <<0, 0, 0, 0, 1, 0, 0, 0>>,
     <<255, 255, 255, 255, 255, 255, 255, 0>>, U64Max}

(* ---------------------------------------------------------------------- *)
(* vmm.rs                                                                 *)
(* ---------------------------------------------------------------------- *)
None == [some |-> FALSE, v |-> 0]
Some(v) == [some |-> TRUE, v |-> v]
\* Option::unwrap
unwrap(opt) == IF opt.some THEN Returned(opt.v) ELSE Panicked
\* Option::unwrap_or
unwrap_or(opt, default) == IF opt.some THEN Returned(opt.v) ELSE Returned(default)

VMIds == 0..MaxVm
Options == {None} \cup { Some(v) : v \in 1..(MaxVm + 1) }
\* What the bound VmmIf implementation answers: current_vm_id() on its first
\* and on its second call, and vcpu_num and active_vcpus for every VM id.
VmmImpls ==
    [ids : [1..2 -> VMIds], vcpu_num : [VMIds -> Options],
     active_vcpus : [VMIds -> Options]]

\* current_vm_vcpu_num that falls back to 0 outside a VM.
current_vm_vcpu_num_or_default(impl) ==
    LET id == impl.ids[1]
        num == impl.vcpu_num[id]
    IN [trace |-> <<CallOf("current_vm_id", <<>>, id), CallOf("vcpu_num", id, num)>>,
        result |-> unwrap_or(num, 0)]

\* pub fn current_vm_vcpu_num() -> usize
current_vm_vcpu_num(impl) ==
    LET id == impl.ids[1]
        num == impl.vcpu_num[id]
    IN [trace |-> <<CallOf("current_vm_id", <<>>, id), CallOf("vcpu_num", id, num)>>,
        result |-> unwrap(num)]

\* pub fn current_vm_active_vcpus() -> usize
current_vm_active_vcpus(impl) ==
    LET id == impl.ids[1]
        mask == impl.active_vcpus[id]
    IN [trace |-> <<CallOf("current_vm_id", <<>>, id), CallOf("active_vcpus", id, mask)>>,
        result |-> unwrap(mask)]

(* ---------------------------------------------------------------------- *)
(* State machine                                                          *)
(* ---------------------------------------------------------------------- *)
Expansion(directive, attr, input, env, out) ==
    [directive |-> directive, attr |-> attr, input |-> input, env |-> env, out |-> out]

NotLinked == [status |-> "none", diags |-> {}, calls |-> {}]

\* Nothing has been run yet.
Idle == [op |-> "none", trace |-> <<>>, result |-> [kind |-> "none", val |-> 0]]

\* The target the library's own cfg gates name, and another one.
Targets == {"aarch64", "x86_64"}

\* Whether Span::join is available is a property of the toolchain, the same
\* for every expansion of a build.
Init ==
    /\ expansions = <<>>
    /\ link = NotLinked
    /\ toolchain \in [can_join : BOOLEAN, target_arch : {"aarch64"}]
    /\ run = Idle

\* One expansion of #[api_def(attr)] input.
ApiDef(attrs, items, envs, max) ==
    /\ link = NotLinked
    /\ Len(expansions) < max
    /\ \E attr \in attrs, input \in items, env \in envs :
          expansions' = Append(expansions,
              Expansion("api_def", attr, input, env,
                        api_def(attr, input, env.found, toolchain.can_join)))
    /\ UNCHANGED <<link, toolchain, run>>

\* One expansion of #[api_impl(attr)] input.
ApiImpl(attrs, items, envs, max) ==
    /\ link = NotLinked
    /\ Len(expansions) < max
    /\ \E attr \in attrs, input \in items, env \in envs :
          expansions' = Append(expansions,
              Expansion("api_impl", attr, input, env,
                        api_impl(attr, input, env.found, toolchain.can_join)))
    /\ UNCHANGED <<link, toolchain, run>>

\* The whole build: compile and link what was expanded, with some of the
\* generated callers invoked from reachable code (none when the build does
\* not get as far as code that could call them).
Link ==
    /\ link = NotLinked
    /\ Len(expansions) > 0
    /\ LET built == Configured(expansions, toolchain.target_arch)
       IN \E calls \in SUBSET AllCallers(built) :
             /\ (~Compiles(built) => calls = {})
             /\ link' = Build(built, calls)
    /\ UNCHANGED <<expansions, toolchain, run>>

\* A call that also undoes the link, so that other bindings can be registered.
Invoke_relinking ==
    /\ link.status = "ok"
    /\ Len(run.trace) < MaxCalls
    /\ \E sym \in link.calls :
          LET call == Dispatch(Configured(expansions, toolchain.target_arch), sym)
          IN run' = [op |-> "caller", trace |-> Append(run.trace, call),
                     result |-> [kind |-> "ret", val |-> call.ret]]
    /\ link' = NotLinked
    /\ UNCHANGED <<expansions, toolchain>>

\* The built program invokes one of the generated callers it holds a call to.
Invoke ==
    /\ link.status = "ok"
    /\ Len(run.trace) < MaxCalls
    /\ \E sym \in link.calls :
          LET call == Dispatch(Configured(expansions, toolchain.target_arch), sym)
          IN run' = [op |-> "caller", trace |-> Append(run.trace, call),
                     result |-> [kind |-> "ret", val |-> call.ret]]
    /\ UNCHANGED <<expansions, link, toolchain>>

\* The built program invokes some_demo::provided_func(), which goes through
\* the caller some_func().
ProvidedFunc ==
    /\ link.status = "ok"
    /\ Len(run.trace) < MaxCalls
    /\ Symbol(AXVISOR_API_NS, "SomeDemoIf", "some_func") \in link.calls
    /\ LET call == Dispatch(Configured(expansions, toolchain.target_arch),
                            Symbol(AXVISOR_API_NS, "SomeDemoIf", "some_func"))
       IN run' = [op |-> "provided_func", trace |-> Append(run.trace, call),
                  result |-> [kind |-> "ret", val |-> provided_func(call.ret)]]
    /\ UNCHANGED <<expansions, link, toolchain>>

Next ==
    \/ ApiDef(Attrs, Items, Envs, MaxItems)
    \/ ApiImpl(Attrs, Items, Envs, MaxItems)

Spec == Init /\ [][Next]_vars

\* Builds of declarations and bindings, carried through to the link step.
LinkNext ==
    \/ ApiDef(BuildAttrs, Traits, BuildEnvs, MaxBuild)
    \/ ApiImpl(BuildAttrs, Impls, BuildEnvs, MaxBuild)
    \/ Link
    \/ Invoke
    \/ ProvidedFunc

LinkSpec == Init /\ [][LinkNext]_vars

\* Builds of the target-gated interface, for either target.
CfgInit ==
    /\ expansions = <<>>
    /\ link = NotLinked
    /\ toolchain \in [can_join : {FALSE}, target_arch : Targets]
    /\ run = Idle

CfgNext ==
    \/ ApiDef(BuildAttrs, {TraitArchIf}, ArchEnvs, MaxBuild)
    \/ ApiImpl(BuildAttrs, {ImplArchIfImpl}, ArchEnvs, MaxBuild)
    \/ Link

CfgSpec == CfgInit /\ [][CfgNext]_vars

\* The first call of one of the API's convenience functions in a built
\* program, with whatever implementation is bound below it.
Ran(op, args, impl, res) ==
    [op |-> op, args |-> args, impl |-> impl, trace |-> res.trace, result |-> res.result]

CurrentVmVcpuNum ==
    /\ run = Idle
    /\ \E impl \in VmmImpls :
          run' = Ran("current_vm_vcpu_num", <<>>, impl, current_vm_vcpu_num(impl))
    /\ UNCHANGED <<expansions, link, toolchain>>

CurrentVmActiveVcpus ==
    /\ run = Idle
    /\ \E impl \in VmmImpls :
          run' = Ran("current_vm_active_vcpus", <<>>, impl, current_vm_active_vcpus(impl))
    /\ UNCHANGED <<expansions, link, toolchain>>

TimeToTicks ==
    /\ run = Idle
    /\ \E impl \in TimeImpls : \E time \in Durations :
          run' = Ran("time_to_ticks", <<time>>, impl, time_to_ticks(impl, time))
    /\ UNCHANGED <<expansions, link, toolchain>>

TicksToTime ==
    /\ run = Idle
    /\ \E impl \in TimeImpls : \E ticks \in TicksInputs :
          run' = Ran("ticks_to_time", <<ticks>>, impl, ticks_to_time(impl, ticks))
    /\ UNCHANGED <<expansions, link, toolchain>>

RunInit ==
    /\ expansions = <<>>
    /\ link = NotLinked
    /\ toolchain = [can_join |-> FALSE, target_arch |-> "aarch64"]
    /\ run = Idle

RunNext ==
    \/ CurrentVmVcpuNum
    \/ CurrentVmActiveVcpus
    \/ TimeToTicks
    \/ TicksToTime

RunSpec == RunInit /\ [][RunNext]_vars

(* ---------------------------------------------------------------------- *)
(* Reading an expansion's output                                          *)
(* ---------------------------------------------------------------------- *)
Done == { expansions[i] : i \in 1..Len(expansions) }

\* The tokens of out that the macro wrote itself (not taken from its input).
Generated(out) == { i \in 1..Len(out) : out[i].sp = CallSite }

\* out consists of the diagnostic compile_error!(msg) and of nothing else.
OnlyDiagnostic(out, msg) == Texts(out) = compile_error(msg)

\* out mentions the primitive's attribute prim among the generated tokens.
Mentions(out, prim) == \E i \in 1..Len(out) : out[i].t = prim

\* out carries some token of the annotated item.
EmitsItem(out, input) ==
    \E i \in 1..Len(out), j \in 1..Len(input) : out[i] = input[j]

\* The path expected in front of ::__priv for a located library.
ResolvedPath(found) == IF found.kind = "Itself" THEN "crate" ELSE found.name

\* The annotation expected from a directive, as texts.
DefAnnotation(path) ==
    <<"#", "[", path, "::", "__priv", "::", "crate_interface", "::",
      "def_interface", "(", "gen_caller", ",", "namespace", "=", "AxVisorApi", ")", "]">>
ImplAnnotation(path) ==
    <<"#", "[", path, "::", "__priv", "::", "crate_interface", "::",
      "impl_interface", "(", "namespace", "=", "AxVisorApi", ")", "]">>

\* The value given to the namespace option in out, "" when there is none.
NamespaceOf(out) ==
    LET at == { i \in 1..Len(out) - 2 :
                  /\ out[i].t = "namespace" /\ out[i].sp = CallSite
                  /\ out[i + 1].t = "=" }
    IN IF at = {} THEN "" ELSE out[(CHOOSE i \in at : TRUE) + 2].t

(* ---------------------------------------------------------------------- *)
(* Claims                                                                 *)
(* ---------------------------------------------------------------------- *)
\* C1: whenever the attribute argument list of api_def or api_impl is not
\* empty, the expansion yields the no-arguments compile_error! diagnostic and
\* nothing else: no token of the annotated item, no def_interface or
\* impl_interface annotation.
C1_ArgsYieldOnlyDiagnostic ==
    \A e \in Done :
        Len(e.attr) # 0 =>
            /\ OnlyDiagnostic(e.out, NoArgsMsg)
            /\ ~EmitsItem(e.out, e.input)
            /\ ~Mentions(e.out, "def_interface")
            /\ ~Mentions(e.out, "impl_interface")

C1_Witness ==
    /\ \E e \in Done : e.directive = "api_def" /\ Len(e.attr) # 0
    /\ \E e \in Done : e.directive = "api_impl" /\ Len(e.attr) # 0

\* C2: the no-arguments diagnostic is spanned inside the supplied argument
\* tokens: every token of it starts at the first argument token and ends no
\* later than the last one, so it is never at the call site nor on the
\* annotated item, for one argument token as for several.
C2_DiagnosticSpannedAtArgs ==
    \A e \in Done :
        Len(e.attr) # 0 =>
            /\ Mentions(e.out, NoArgsMsg)
            /\ \A i \in 1..Len(e.out) :
                  /\ e.out[i].sp # CallSite
                  /\ e.out[i].sp.lo = e.attr[1].sp.lo
                  /\ e.out[i].sp.hi >= e.attr[1].sp.hi
                  /\ e.out[i].sp.hi <= e.attr[Len(e.attr)].sp.hi
                  /\ \A j \in 1..Len(e.input) : e.out[i].sp # e.input[j].sp

C2_Witness ==
    /\ \E e \in Done : Len(e.attr) > 1 /\ e.out[1].sp.hi = e.attr[Len(e.attr)].sp.hi
    /\ \E e \in Done : Len(e.attr) = 1

\* C3: api_def with no arguments and a located library emits the
\* def_interface(gen_caller, namespace = AxVisorApi) annotation under the
\* resolved path, followed by the input tokens, unchanged and in order, and
\* nothing else.
C3_ApiDefOutput ==
    \A e \in Done :
        (e.directive = "api_def" /\ Len(e.attr) = 0 /\ e.env.found.kind # "Err") =>
            LET ann == DefAnnotation(ResolvedPath(e.env.found))
            IN /\ Len(e.out) = Len(ann) + Len(e.input)
               /\ Texts(SubSeq(e.out, 1, Len(ann))) = ann
               /\ SubSeq(e.out, Len(ann) + 1, Len(e.out)) = e.input

C3_Witness ==
    \E e \in Done :
        /\ e.directive = "api_def" /\ Len(e.attr) = 0
        /\ e.env.found.kind = "Name" /\ e.input = TraitSomeDemoIf

\* C4: api_impl with no arguments and a located library emits the
\* impl_interface(namespace = AxVisorApi) annotation under the resolved path,
\* followed by the input binding, unchanged, and nothing else.
C4_ApiImplOutput ==
    \A e \in Done :
        (e.directive = "api_impl" /\ Len(e.attr) = 0 /\ e.env.found.kind # "Err") =>
            LET ann == ImplAnnotation(ResolvedPath(e.env.found))
            IN /\ Len(e.out) = Len(ann) + Len(e.input)
               /\ Texts(SubSeq(e.out, 1, Len(ann))) = ann
               /\ SubSeq(e.out, Len(ann) + 1, Len(e.out)) = e.input

C4_Witness ==
    \E e \in Done :
        /\ e.directive = "api_impl" /\ Len(e.attr) = 0
        /\ e.env.found.kind = "Name" /\ e.input = ImplSomeDemoImpl

\* C5: every annotation emitted by any expansion of a build names the
\* namespace AxVisorApi, so a declaration and a binding always agree on it.
C5_OneNamespace ==
    \A e \in Done :
        (Mentions(e.out, "def_interface") \/ Mentions(e.out, "impl_interface")) =>
            NamespaceOf(e.out) = "AxVisorApi"

C5_Witness ==
    /\ \E e \in Done : e.directive = "api_def" /\ Mentions(e.out, "def_interface")
    /\ \E e \in Done : e.directive = "api_impl" /\ Mentions(e.out, "impl_interface")

\* C6: the path in front of ::__priv is `crate` exactly when the expansion
\* takes place inside the axvisor_api library, and otherwise it is the name
\* under which the expanding crate imports the library.
C6_PathFollowsLocation ==
    \A e \in Done :
        (Len(e.attr) = 0 /\ e.env.found.kind # "Err") =>
            /\ (e.out[3].t = "crate") <=> (e.env.loc = "library")
            /\ (e.env.loc # "library") => e.out[3].t = e.env.imported_as

\* C7: when the library is not found, the expansion yields the crate-not-found
\* diagnostic and nothing else: no annotation and no item.
C7_NotFoundYieldsOnlyDiagnostic ==
    \A e \in Done :
        (Len(e.attr) = 0 /\ e.env.found.kind = "Err") =>
            /\ OnlyDiagnostic(e.out, CrateNotFoundMsg)
            /\ ~Mentions(e.out, "def_interface")
            /\ ~Mentions(e.out, "impl_interface")
            /\ ~EmitsItem(e.out, e.input)

\* C8: api_def on anything but an operation-set declaration, and api_impl on
\* anything but a binding, is rejected while the build expands its
\* attributes: a diagnostic, and no interface, binding or plain code for the
\* item.
C8_WrongShapeRejected ==
    \A e \in Done :
        \/ (e.directive = "api_def" /\ e.input[1].t # "trait")
        \/ (e.directive = "api_impl" /\ e.input[1].t # "impl")
        => Outcome(e.out) = "rejected"

C8_Witness ==
    /\ \E e \in Done :
          /\ e.directive = "api_def" /\ Len(e.attr) = 0 /\ e.env.found.kind = "Name"
          /\ e.input = StructSomeDemoImpl
    /\ \E e \in Done :
          /\ e.directive = "api_impl" /\ Len(e.attr) = 0 /\ e.env.found.kind = "Name"
          /\ e.input = TraitSomeDemoIf

\* The api_impl expansions of the build that bind interface x, and the
\* operations they implement.
BindingsFor(x) ==
    { i \in 1..Len(expansions) :
        /\ expansions[i].directive = "api_impl" /\ Len(expansions[i].attr) = 0
        /\ expansions[i].input[1].t = "impl" /\ expansions[i].input[2].t = x }
BoundOps(x) == UNION { OpsOf(expansions[i].input) : i \in BindingsFor(x) }
BoundInterfaces == { x \in {"SomeDemoIf", "OtherIf", "MarkerIf"} : BindingsFor(x) # {} }
Linked == link.status \in {"ok", "link_error"}

C10_UnboundCallUnresolved ==
    \A sym \in link.calls :
        BindingsFor(sym[2]) = {} =>
            link.status = "link_error" /\ "unresolved_symbol" \in link.diags

C10_Witness ==
    /\ link.status = "link_error"
    /\ \E sym \in link.calls : sym[2] = "SomeDemoIf" /\ BindingsFor("SomeDemoIf") = {}
    /\ \E i \in 1..Len(expansions) :
          expansions[i].directive = "api_def" /\ expansions[i].input = TraitSomeDemoIf

\* C13: for every declaration that api_def hands on as an interface, the
\* generated callers are exactly the declared operations, each with the same
\* name, the same parameters in the same order and the same return type.
C13_CallerSignatures ==
    \A e \in Done :
        (e.directive = "api_def" /\ Len(e.attr) = 0 /\ e.env.found.kind # "Err"
            /\ e.input[1].t = "trait") =>
            /\ CallerStubs(e.out) = SignaturesOf(e.input)
            /\ e.input = TraitSomeDemoIf =>
                  CallerStubs(e.out) =
                      { [name |-> "some_func", params |-> <<>>, ret |-> "PhysAddr"],
                        [name |-> "another_func", params |-> <<"addr", ":", "PhysAddr">>,
                         ret |-> "()"] }

C13_Witness ==
    \E e \in Done :
        /\ e.directive = "api_def" /\ Len(e.attr) = 0 /\ e.env.found.kind = "Itself"
        /\ e.input = TraitSomeDemoIf
        /\ Cardinality(CallerStubs(e.out)) = 2

UsageError(e) ==
    \/ Len(e.attr) # 0
    \/ (e.directive = "api_def" /\ e.input[1].t # "trait")
    \/ (e.directive = "api_impl" /\ e.input[1].t # "impl")

\* The output of an expansion without arguments in a build that holds nothing
\* else: the directive's annotation under whatever the resolver answers, then
\* the item.
OutputAlone(e) ==
    LET path == IF e.env.found.kind = "Err" THEN compile_error(CrateNotFoundMsg)
                ELSE <<ResolvedPath(e.env.found)>>
        ann == IF e.directive = "api_def" THEN DefAnnotation("") ELSE ImplAnnotation("")
    IN quote(SubSeq(ann, 1, 2) \o path \o SubSeq(ann, 4, Len(ann))) \o e.input

\* C15: a usage error on one item of a build changes nothing in what the
\* other expansions of that build emit: each expansion without arguments emits
\* what it emits in a build of its own.
C15_UsageErrorsDoNotSpread ==
    \A i \in 1..Len(expansions) :
        (/\ Len(expansions[i].attr) = 0
         /\ \E j \in 1..Len(expansions) : j # i /\ UsageError(expansions[j]))
        => expansions[i].out = OutputAlone(expansions[i])

C15_Witness ==
    \E i, j \in 1..Len(expansions) :
        /\ i < j
        /\ Len(expansions[i].attr) # 0
        /\ Len(expansions[j].attr) = 0
        /\ expansions[j].directive = "api_impl" /\ expansions[j].input = ImplSomeDemoImpl
        /\ Outcome(expansions[j].out) = "binding"

\* C18: the argument check comes first: with arguments supplied the output is
\* the no-arguments diagnostic alone, also where the library cannot be
\* located, and the crate-not-found diagnostic shows up only in expansions
\* without arguments.
C18_ArgumentCheckFirst ==
    \A e \in Done :
        /\ (Len(e.attr) # 0 /\ e.env.found.kind = "Err") =>
              /\ OnlyDiagnostic(e.out, NoArgsMsg)
              /\ ~Mentions(e.out, CrateNotFoundMsg)
        /\ Mentions(e.out, CrateNotFoundMsg) =>
              (Len(e.attr) = 0 /\ e.env.found.kind = "Err")
        /\ Mentions(e.out, NoArgsMsg) => Len(e.attr) # 0

C18_Witness ==
    /\ \E e \in Done : e.directive = "api_impl" /\ Len(e.attr) # 0 /\ e.env = EnvMissing
    /\ \E e \in Done : Len(e.attr) = 0 /\ e.env = EnvMissing
                       /\ Mentions(e.out, CrateNotFoundMsg)

\* C12: an operation gated on a target exists in a build, as an operation of
\* its declaration, as a caller and as an exported implementation, exactly
\* when the build is for that target; a build for another target holds none
\* of them and is not failed for it.
C12_GatedOperations ==
    LET built == Configured(expansions, toolchain.target_arch)
        on == toolchain.target_arch = "aarch64"
    IN /\ \A i \in 1..Len(expansions) :
             (expansions[i].directive = "api_def" /\ Len(expansions[i].attr) = 0) =>
                 /\ OpsOf(ItemOf(built[i].out)) = (IF on THEN ArchOps ELSE {})
                 /\ { sym[3] : sym \in CallersOf(built[i].out) } = (IF on THEN ArchOps ELSE {})
                 /\ { sig.name : sig \in CallerStubs(built[i].out) } = (IF on THEN ArchOps ELSE {})
       /\ \A i \in 1..Len(expansions) :
             (expansions[i].directive = "api_impl" /\ Len(expansions[i].attr) = 0) =>
                 { sym[3] : sym \in ExportsOf(built[i].out) } = (IF on THEN ArchOps ELSE {})
       /\ (/\ link.status # "none" /\ ~on
           /\ \A i \in 1..Len(expansions) : Len(expansions[i].attr) = 0
           /\ \E i \in 1..Len(expansions) : expansions[i].directive = "api_def")
          => link = [status |-> "ok", diags |-> {}, calls |-> {}]

C12_Witness ==
    /\ toolchain.target_arch = "x86_64"
    /\ link.status = "ok"
    /\ \E i \in 1..Len(expansions) :
          expansions[i].directive = "api_def" /\ Len(expansions[i].attr) = 0
    /\ \E i \in 1..Len(expansions) :
          expansions[i].directive = "api_impl" /\ Len(expansions[i].attr) = 0

\* C11: with an interface declared and exactly one binding of it linked, a
\* call through a generated caller runs that binding's body and returns its
\* value: with SomeDemoImpl bound, some_func() returns 0x42 and
\* provided_func() returns 0x42 + 0x1000.
C11_CallerReturnsBindingValue ==
    /\ \A k \in 1..Len(run.trace) :
          LET call == run.trace[k]
          IN \A b \in BindingsFor(call.sym[2]) :
                /\ BindingsFor(call.sym[2]) = {b}
                /\ call.target = b
                /\ call.ret = BodyValue(expansions[b].input, call.sym[3])
                /\ (expansions[b].input = ImplSomeDemoImpl /\ call.sym[3] = "some_func")
                      => call.ret = 66
    /\ (run.op = "provided_func"
          /\ \E b \in BindingsFor("SomeDemoIf") : expansions[b].input = ImplSomeDemoImpl)
       => run.result = [kind |-> "ret", val |-> 66 + 4096]
    /\ (run.op = "caller" /\ Len(run.trace) > 0)
       => run.result = [kind |-> "ret", val |-> run.trace[Len(run.trace)].ret]

C11_Witness ==
    /\ run.op = "provided_func"
    /\ Len(run.trace) = 2
    /\ run.trace[1].sym = Symbol("AxVisorApi", "SomeDemoIf", "some_func")
    /\ run.trace[1].ret = 66
    /\ run.result.val = 4162

\* Every call of the run to one caller went to one binding.
OneTargetPerCaller(r) ==
    \A k, m \in 1..Len(r.trace) :
        r.trace[k].sym = r.trace[m].sym => r.trace[k].target = r.trace[m].target

\* C16: once the artifact is built, nothing re-registers or swaps a binding:
\* no step changes the expansions or the link, and all calls to one caller
\* are dispatched to the same binding.
C16_ResolutionIsFixed ==
    [][link.status = "ok" =>
          /\ link' = link
          /\ expansions' = expansions
          /\ toolchain' = toolchain
          /\ OneTargetPerCaller(run')]_vars

C16_Witness ==
    /\ link.status = "ok"
    /\ Len(run.trace) = 2
    /\ run.trace[1].sym = run.trace[2].sym
    /\ run.trace[1].target = run.trace[2].target

C19_CurrentVmHelpersUnwrap ==
    run.op \in {"current_vm_vcpu_num", "current_vm_active_vcpus"} =>
        LET callee == IF run.op = "current_vm_vcpu_num" THEN "vcpu_num" ELSE "active_vcpus"
            answer == IF run.op = "current_vm_vcpu_num"
                      THEN run.impl.vcpu_num ELSE run.impl.active_vcpus
        IN /\ Len(run.trace) = 2
           /\ Cardinality({ k \in 1..Len(run.trace) : run.trace[k].fn = "current_vm_id" }) = 1
           /\ run.trace[1] = [fn |-> "current_vm_id", arg |-> <<>>, ret |-> run.impl.ids[1]]
           /\ run.trace[2].fn = callee
           /\ run.trace[2].arg = run.trace[1].ret
           /\ run.trace[2].ret = answer[run.trace[1].ret]
           /\ run.trace[2].ret.some
                 => run.result = [kind |-> "ret", val |-> run.trace[2].ret.v]
           /\ ~run.trace[2].ret.some => run.result.kind = "panic"

C19_Witness ==
    /\ run.op = "current_vm_vcpu_num"
    /\ run.impl.ids[1] = 1
    /\ run.impl.vcpu_num[0] = [some |-> TRUE, v |-> 2]
    /\ run.impl.vcpu_num[1] = [some |-> FALSE, v |-> 0]
    /\ run.result.kind = "panic"

\* A duration is shorter than 2^64 ns = 18446744073 s + 709551616 ns.
Below2To64Nanos(d) ==
    \/ Less(d.secs, <<9, 250, 130, 75, 4, 0, 0, 0>>)
    \/ d.secs = <<9, 250, 130, 75, 4, 0, 0, 0>> /\ d.nanos < 709551616

\* C20: time_to_ticks(time) passes to nanos_to_ticks the low 64 bits of the
\* 128-bit nanosecond count of time, which is that count itself exactly for
\* the durations below 2^64 ns, and returns what nanos_to_ticks answers;
\* ticks_to_time(t) is Duration::from_nanos(ticks_to_nanos(t)), the duration
\* of exactly that many nanoseconds.
C20_TimeConversions ==
    /\ run.op = "time_to_ticks" =>
          LET time == run.args[1]
              count == as_nanos(time)
          IN /\ Len(run.trace) = 1
             /\ run.trace[1].fn = "nanos_to_ticks"
             /\ run.trace[1].arg = SubSeq(count, 1, 8)
             /\ (Extend(run.trace[1].arg, 16) = count) <=> Below2To64Nanos(time)
             /\ run.trace[1].ret = impl_nanos_to_ticks(run.impl, run.trace[1].arg)
             /\ run.result = [kind |-> "ret", val |-> run.trace[1].ret]
    /\ run.op = "ticks_to_time" =>
          /\ Len(run.trace) = 1
          /\ run.trace[1] = [fn |-> "ticks_to_nanos", arg |-> run.args[1],
                             ret |-> impl_ticks_to_nanos(run.impl, run.args[1])]
          /\ run.result = [kind |-> "ret", val |-> from_nanos(run.trace[1].ret)]
          /\ run.result.val.nanos < 1000000000
          /\ as_nanos(run.result.val) = Extend(run.trace[1].ret, 16)

\* 2^64 ns exactly is passed on as 0 ns.
C20_Witness ==
    /\ run.op = "time_to_ticks"
    /\ run.args[1] = [secs |-> <<9, 250, 130, 75, 4, 0, 0, 0>>, nanos |-> 709551616]
    /\ run.trace[1].arg = <<0, 0, 0, 0, 0, 0, 0, 0>>
    /\ run.result.val = <<0, 0, 0, 0, 0, 0, 0, 0>>

====
